---- MODULE Spec2Model ----
(***************************************************************************)
(* A model of server.py, the Daytona MCP server: eight tools and two       *)
(* resources that turn a call into one authenticated HTTP request against  *)
(* the sandbox service and render the answer (or the failure) as text.     *)
(*                                                                         *)
(* Text is a sequence of chunks (strings); every character the code looks  *)
(* at on its own ("/" in a path, "." "g" "i" "t" in a repository URL) is a *)
(* chunk, so split, rstrip and replace work on it as they do in Python.    *)
(***************************************************************************)
EXTENDS Integers, Sequences, FiniteSets, TLC

VARIABLES
    env,        \* os.environ: DAYTONA_API_KEY and DAYTONA_SERVER_URL
    pc,         \* "idle" | "awaiting" (request in flight) | "responded"
    call,       \* the invocation in progress, or the last one
    sent,       \* the requests issued during that invocation, in order
    response,   \* what came back for the last request
    result,     \* what the invocation returned
    sandboxes,  \* service: the ids of the sandboxes that exist
    files,      \* service: the files uploaded, by (sandbox id, path)
    created,    \* caller: ids learnt from successful creates and not removed since
    removed,    \* caller: ids removed successfully and not handed out again since
    written     \* caller: the content of the last acknowledged write, by (id, path)

vars == <<env, pc, call, sent, response, result, sandboxes, files, created, removed, written>>

-----------------------------------------------------------------------------
(* Bounds and sample values *)

MaxFiles == 2
MaxUrlLen == 5

\* the ids the service hands out, in the order it lists them
IdsInOrder == << <<"sbx1">>, <<"sbx2">> >>
Ids == {IdsInOrder[n] : n \in 1..Len(IdsInOrder)}

Slash == "/"
WritePaths == {<<Slash, "tmp", Slash, "a.txt">>, <<"a.txt">>}
Contents == {<<"data">>, <<"other">>}
Commands == {<<"echo hi">>}
ListPaths == {<<".">>}
ResourceUris ==
    {<<"daytona://", "sbx1", Slash, "files", Slash, "a.txt">>,
     <<"daytona://", "sbx1", Slash, "files", Slash, "a", Slash, "b", Slash, "c.txt">>}
SampleRepoUrls ==
    {<<"https://example.com", Slash, "org", Slash, "myrepo", ".", "g", "i", "t">>,
     <<"https://example.com", Slash, "org", Slash, "plain">>}

UrlChars == {Slash, ".", "g", "i", "t"}
RECURSIVE SeqsUpTo(_, _)
SeqsUpTo(S, n) ==
    IF n = 0 THEN {<<>>}
    ELSE LET shorter == SeqsUpTo(S, n - 1)
         IN  shorter \cup {Append(s, c) : s \in {t \in shorter : Len(t) = n - 1}, c \in S}
BoundedRepoUrls == SeqsUpTo(UrlChars, MaxUrlLen)

ServerRoot == <<"http://daytona.test">>
EnvValues(vals) == {[set |-> FALSE, val |-> <<>>]} \cup {[set |-> TRUE, val |-> v] : v \in vals}
ApiKeys == EnvValues({<<>>, <<"k1">>})
ServerUrls == EnvValues({<<>>, ServerRoot, ServerRoot \o <<Slash>>})

-----------------------------------------------------------------------------
(* Python's str operations *)

\* s.rstrip(c)
RECURSIVE RStrip(_, _)
RStrip(s, c) ==
    IF s # <<>> /\ s[Len(s)] = c THEN RStrip(SubSeq(s, 1, Len(s) - 1), c) ELSE s

\* s.split(sep)[-1]
LastSegment(s, sep) ==
    LET at == {i \in 1..Len(s) : s[i] = sep}
    IN  IF at = {} THEN s
        ELSE SubSeq(s, (CHOOSE i \in at : \A j \in at : j <= i) + 1, Len(s))

\* s.replace(old, new): every non-overlapping occurrence, from the left
RECURSIVE Replace(_, _, _)
Replace(s, old, new) ==
    IF Len(s) < Len(old) THEN s
    ELSE IF SubSeq(s, 1, Len(old)) = old
         THEN new \o Replace(SubSeq(s, Len(old) + 1, Len(s)), old, new)
         ELSE <<s[1]>> \o Replace(Tail(s), old, new)

\* sub in s
Contains(s, sub) ==
    \E i \in 0..(Len(s) - Len(sub)) : SubSeq(s, i + 1, i + Len(sub)) = sub

\* the pieces of s between the occurrences of sep, in order
RECURSIVE Split(_, _)
Split(s, sep) ==
    LET at == {i \in 1..Len(s) : s[i] = sep}
    IN  IF at = {} THEN <<s>>
        ELSE LET i == CHOOSE k \in at : \A j \in at : k <= j
             IN  <<SubSeq(s, 1, i - 1)>> \o Split(SubSeq(s, i + 1, Len(s)), sep)

DotGit == <<".", "g", "i", "t">>

\* str(int) of the status codes that occur
StatusStr(n) ==
    CASE n = 200 -> "200" [] n = 404 -> "404" [] n = 500 -> "500" [] n = 507 -> "507"
      [] OTHER -> "?"

ReasonPhrase(n) ==
    CASE n = 404 -> "Not Found" [] n = 500 -> "Internal Server Error"
      [] n = 507 -> "Insufficient Storage" [] OTHER -> "OK"

-----------------------------------------------------------------------------
(* Exceptions, requests, responses, return values *)

Raise(msg) == [raised |-> TRUE, exc |-> msg, value |-> <<>>]
Ok(v) == [raised |-> FALSE, exc |-> <<>>, value |-> v]

Truthy(v) == v.set /\ v.val # <<>>

JNull == [t |-> "null", kv |-> {}, items |-> <<>>]
JObj(pairs) == [t |-> "obj", kv |-> pairs, items |-> <<>>]
JArr(objs) == [t |-> "arr", kv |-> {}, items |-> objs]
JHas(j, key) == \E p \in j.kv : p[1] = key
\* dict.get(key, default)
JGet(j, key, default) ==
    IF JHas(j, key) THEN (CHOOSE p \in j.kv : p[1] = key)[2] ELSE default

Request(method, url, headers, params, json, multipart, timeout) ==
    [method |-> method, url |-> url, headers |-> headers, params |-> params,
     json |-> json, files |-> multipart, timeout |-> timeout]

HttpResponse(status, text, json) ==
    [kind |-> "http", status |-> status, text |-> text, json |-> json, error |-> <<>>]
TransportFailure(description) ==
    [kind |-> "transport", status |-> 0, text |-> <<>>, json |-> JNull, error |-> description]
NoResponse == [kind |-> "none", status |-> 0, text |-> <<>>, json |-> JNull, error |-> <<>>]

\* A returned string: `site` is the return statement that produced it, `text` the
\* string, `data` the JSON value that json.dumps renders where text holds "<json>".
Returned(site, text, data) == [site |-> site, text |-> text, data |-> data]
NoResult == Returned("none", <<>>, JNull)

NoCall ==
    [op |-> "none", handler |-> "none", sandbox_id |-> <<>>, path |-> <<>>,
     content |-> <<>>, command |-> <<>>, repository_url |-> <<>>, uri |-> <<>>]

KeyNotSet == <<"DAYTONA_API_KEY environment variable is not set">>
UrlNotSet == <<"DAYTONA_SERVER_URL environment variable is not set">>
JsonContentType == <<"Content-Type", <<"application/json">>>>
ExecuteTimeout == 60

-----------------------------------------------------------------------------
(* Configuration *)

get_headers_unchecked ==
    Ok({<<"Authorization", <<"Bearer ">> \o env.DAYTONA_API_KEY.val>>, JsonContentType})

get_headers ==
    LET api_key == env.DAYTONA_API_KEY
    IN  IF ~Truthy(api_key) THEN Raise(KeyNotSet)
        ELSE Ok({<<"Authorization", <<"Bearer ">> \o api_key.val>>, JsonContentType})

get_base_url ==
    LET url == env.DAYTONA_SERVER_URL
    IN  IF ~Truthy(url) THEN Raise(UrlNotSet) ELSE Ok(RStrip(url.val, Slash))

\* The first two statements of every handler's try block: the base URL, then the
\* headers; the first one that raises ends the block.
resolve ==
    LET base == get_base_url
    IN  IF base.raised THEN base
        ELSE LET headers == get_headers
             IN  IF headers.raised THEN headers
                 ELSE Ok([base |-> base.value, headers |-> headers.value])

-----------------------------------------------------------------------------
(* What each handler does up to its await: the request it issues, or the    *)
(* exception raised before any request.                                     *)

list_sandboxes_request ==
    LET c == resolve
    IN  IF c.raised THEN c
        ELSE Ok(Request("GET", c.value.base \o <<"/api/sandbox">>, c.value.headers,
                        {}, {}, {}, 0))

\* the `name` of the create payload
derived_name(repository_url) == Replace(LastSegment(repository_url, Slash), DotGit, <<>>)

create_sandbox_payload(repository_url) ==
    {<< <<"source", "repository", "url">>, repository_url >>,
     << <<"name">>, derived_name(repository_url) >>}

create_sandbox_request(repository_url) ==
    LET c == resolve
    IN  IF c.raised THEN c
        ELSE Ok(Request("POST", c.value.base \o <<"/api/sandbox">>, c.value.headers,
                        {}, create_sandbox_payload(repository_url), {}, 0))

get_sandbox_info_request(sandbox_id) ==
    LET c == resolve
    IN  IF c.raised THEN c
        ELSE Ok(Request("GET", c.value.base \o <<"/api/sandbox/">> \o sandbox_id,
                        c.value.headers, {}, {}, {}, 0))

\* the DELETE issued as the GET of get_sandbox_info
remove_sandbox_request_get(sandbox_id) == get_sandbox_info_request(sandbox_id)

remove_sandbox_request(sandbox_id) ==
    LET c == resolve
    IN  IF c.raised THEN c
        ELSE Ok(Request("DELETE", c.value.base \o <<"/api/sandbox/">> \o sandbox_id,
                        c.value.headers, {}, {}, {}, 0))

execute_command_request(sandbox_id, command) ==
    LET c == resolve
    IN  IF c.raised THEN c
        ELSE Ok(Request("POST",
                        c.value.base \o <<"/api/toolbox/">> \o sandbox_id \o <<"/process/execute">>,
                        c.value.headers, {}, {<< <<"command">>, command >>}, {},
                        ExecuteTimeout))

read_file_request(sandbox_id, path) ==
    LET c == resolve
    IN  IF c.raised THEN c
        ELSE Ok(Request("GET",
                        c.value.base \o <<"/api/toolbox/">> \o sandbox_id \o <<"/files/download">>,
                        c.value.headers, {<<"path", path>>}, {}, {}, 0))

\* headers.copy() followed by pop("Content-Type", None)
upload_headers_kept(headers) == headers

upload_headers(headers) == {h \in headers : h[1] # "Content-Type"}

\* params = {"path": path}
upload_params_basename(path) == {<<"path", LastSegment(path, Slash)>>}

upload_params(path) == {<<"path", path>>}

write_file_request(sandbox_id, path, content) ==
    LET c == resolve
    IN  IF c.raised THEN c
        ELSE Ok(Request("POST",
                        c.value.base \o <<"/api/toolbox/">> \o sandbox_id \o <<"/files/upload">>,
                        upload_headers(c.value.headers), upload_params(path), {},
                        {<<"file", LastSegment(path, Slash), content>>}, 0))

\* cmd = f"ls -la {path}", handed to execute_command
list_files_request(sandbox_id, path) ==
    execute_command_request(sandbox_id, <<"ls -la ">> \o path)

list_sandboxes_resource_request == list_sandboxes_request

read_file_resource_request(sandbox_id, path) ==
    LET decoded_path == path
        c == resolve
    IN  IF c.raised THEN c
        ELSE Ok(Request("GET",
                        c.value.base \o <<"/api/toolbox/">> \o sandbox_id \o <<"/files/download">>,
                        c.value.headers, {<<"path", decoded_path>>}, {}, {}, 0))

-----------------------------------------------------------------------------
(* What each handler does once its request is answered: raise_for_status,   *)
(* the rest of the try block, and the except clauses.                       *)

Failed(resp) == resp.kind = "transport" \/ resp.status >= 400

\* str(e) of what the await or raise_for_status raised: the transport failure's
\* description, or httpx's HTTPStatusError message (status line, URL and a link; not
\* the response body)
ExceptionStr(req, resp) ==
    IF resp.kind = "transport" THEN resp.error
    ELSE <<(IF resp.status >= 500 THEN "Server error" ELSE "Client error"), " '",
           StatusStr(resp.status), " ", ReasonPhrase(resp.status), "' for url '">>
         \o req.url
         \o (IF req.params = {} THEN <<>>
             ELSE <<"?path=">> \o (CHOOSE q \in req.params : q[1] = "path")[2])
         \o <<"'\nFor more information check: ",
              "https://developer.mozilla.org/en-US/docs/Web/HTTP/Status/",
              StatusStr(resp.status)>>

\* except Exception as e: return f"Error {what}: {str(e)}"
tool_error(what, description) ==
    Returned("except Exception", <<"Error ", what, ": ">> \o description, JNull)

\* The two except clauses of a tool
tool_except(what, resp) ==
    IF resp.kind = "transport" THEN tool_error(what, resp.error)
    ELSE Returned("except HTTPStatusError",
                  <<"HTTP Error ", what, ": ", StatusStr(resp.status), " - ">> \o resp.text,
                  JNull)

list_sandboxes_result(resp) ==
    IF Failed(resp) THEN tool_except("listing sandboxes", resp)
    ELSE Returned("return", <<"<json>">>, resp.json)

create_sandbox_result(resp) ==
    IF Failed(resp) THEN tool_except("creating sandbox", resp)
    ELSE Returned("return", <<"Sandbox created successfully. Details: ", "<json>">>, resp.json)

get_sandbox_info_result(resp) ==
    IF Failed(resp) THEN tool_except("getting sandbox info", resp)
    ELSE Returned("return", <<"<json>">>, resp.json)

remove_sandbox_result(sandbox_id, resp) ==
    IF Failed(resp) THEN tool_except("removing sandbox", resp)
    ELSE Returned("return", <<"Sandbox ">> \o sandbox_id \o <<" removed successfully">>, JNull)

\* result['exitCode'] in place of result.get('exitCode', 'Unknown')
execute_command_result_strict(resp) ==
    IF Failed(resp) THEN tool_except("executing command", resp)
    ELSE IF ~JHas(resp.json, "exitCode") THEN tool_error("executing command", <<"'exitCode'">>)
    ELSE Returned("return",
                  <<"Exit Code: ">> \o JGet(resp.json, "exitCode", <<"Unknown">>) \o <<"\n">>
                  \o <<"Stdout: ">> \o JGet(resp.json, "stdout", <<>>) \o <<"\n">>
                  \o <<"Stderr: ">> \o JGet(resp.json, "stderr", <<>>),
                  JNull)

execute_command_result(resp) ==
    IF Failed(resp) THEN tool_except("executing command", resp)
    ELSE Returned("return",
                  <<"Exit Code: ">> \o JGet(resp.json, "exitCode", <<"Unknown">>) \o <<"\n">>
                  \o <<"Stdout: ">> \o JGet(resp.json, "stdout", <<>>) \o <<"\n">>
                  \o <<"Stderr: ">> \o JGet(resp.json, "stderr", <<>>),
                  JNull)

read_file_result(resp) ==
    IF Failed(resp) THEN tool_except("reading file", resp)
    ELSE Returned("return", resp.text, JNull)

write_file_result(path, resp) ==
    IF Failed(resp) THEN tool_except("writing file", resp)
    ELSE Returned("return", <<"File written successfully to ">> \o path, JNull)

\* execute_command returns a string whatever happens, so the except clause of
\* list_files is never entered
list_files_result(resp) == execute_command_result(resp)

list_sandboxes_resource_result(req, resp) ==
    IF Failed(resp)
    THEN Returned("except Exception", <<"<json>">>, JObj({<<"error", ExceptionStr(req, resp)>>}))
    ELSE Returned("return", <<"<json>">>, resp.json)

\* except Exception as e: return f"Error reading resource {sandbox_id}/{path}: {str(e)}"
read_file_resource_error(sandbox_id, path, description) ==
    Returned("except Exception",
             <<"Error ", "reading resource", " ">> \o sandbox_id \o <<Slash>> \o path
             \o <<": ">> \o description,
             JNull)

read_file_resource_result(sandbox_id, path, req, resp) ==
    IF Failed(resp) THEN read_file_resource_error(sandbox_id, path, ExceptionStr(req, resp))
    ELSE Returned("return", resp.text, JNull)

-----------------------------------------------------------------------------
(* The sandbox service the requests go to: it assigns ids on create, forgets *)
(* them on delete, keeps uploaded content under (sandbox id, `path`), and    *)
(* may answer any request with a 500.                                        *)

StubPath(req) ==
    IF Len(req.url) >= Len(ServerRoot) /\ SubSeq(req.url, 1, Len(ServerRoot)) = ServerRoot
    THEN SubSeq(req.url, Len(ServerRoot) + 1, Len(req.url))
    ELSE <<"?">>

SandboxObject(id) == JObj({<<"id", id>>})
NotFound == HttpResponse(404, <<"{\"message\": \"not found\"}">>, JNull)
ServerFault == HttpResponse(500, <<"{\"message\": \"internal error\"}">>, JNull)
Answer(resp, boxes, stored) == [resp |-> resp, sandboxes |-> boxes, files |-> stored]

Listing ==
    LET live == SelectSeq(IdsInOrder, LAMBDA i : i \in sandboxes)
    IN  JArr([k \in 1..Len(live) |-> SandboxObject(live[k]).kv])

ExecBodies ==
    {JObj(e \cup o \cup r) : e \in {{}, {<<"exitCode", <<"0">>>>}},
                             o \in {{}, {<<"stdout", <<"hi\n">>>>}},
                             r \in {{}, {<<"stderr", <<"warn">>>>}}}

FileAt(stored, id, path) == {f \in stored : f[1] = id /\ f[2] = path}

StubAnswers(req) ==
    LET p == StubPath(req)
        id == IF Len(p) >= 2 THEN <<p[2]>> ELSE <<>>
        query == IF req.params = {} THEN <<>> ELSE (CHOOSE q \in req.params : q[1] = "path")[2]
    IN  {Answer(ServerFault, sandboxes, files)} \cup
        CASE p = <<"/api/sandbox">> /\ req.method = "GET" ->
               {Answer(HttpResponse(200, <<>>, Listing), sandboxes, files)}
          [] p = <<"/api/sandbox">> /\ req.method = "POST" ->
               {Answer(HttpResponse(200, <<>>, SandboxObject(i)), sandboxes \cup {i}, files) :
                    i \in Ids \ sandboxes}
          [] Len(p) = 2 /\ p[1] = "/api/sandbox/" /\ req.method = "GET" ->
               IF id \in sandboxes
               THEN {Answer(HttpResponse(200, <<>>, SandboxObject(id)), sandboxes, files)}
               ELSE {Answer(NotFound, sandboxes, files)}
          [] Len(p) = 2 /\ p[1] = "/api/sandbox/" /\ req.method = "DELETE" ->
               IF id \in sandboxes
               THEN {Answer(HttpResponse(200, <<>>, JNull), sandboxes \ {id}, files)}
               ELSE {Answer(NotFound, sandboxes, files)}
          [] Len(p) = 3 /\ p[1] = "/api/toolbox/" /\ p[3] = "/process/execute"
                /\ req.method = "POST" ->
               {Answer(HttpResponse(200, <<>>, b), sandboxes, files) : b \in ExecBodies}
          [] Len(p) = 3 /\ p[1] = "/api/toolbox/" /\ p[3] = "/files/download"
                /\ req.method = "GET" ->
               IF FileAt(files, id, query) # {}
               THEN {Answer(HttpResponse(200, (CHOOSE f \in FileAt(files, id, query) : TRUE)[3],
                                         JNull), sandboxes, files)}
               ELSE {Answer(NotFound, sandboxes, files)}
          [] Len(p) = 3 /\ p[1] = "/api/toolbox/" /\ p[3] = "/files/upload"
                /\ req.method = "POST" /\ req.files # {} ->
               LET kept == files \ FileAt(files, id, query)
               IN  IF Cardinality(kept) < MaxFiles
                   THEN {Answer(HttpResponse(200, <<>>, JNull), sandboxes,
                                kept \cup {<<id, query, (CHOOSE f \in req.files : TRUE)[3]>>})}
                   ELSE {}
          [] OTHER -> {Answer(NotFound, sandboxes, files)}

TransportErrors == {<<"All connection attempts failed">>, <<"The read operation timed out">>}

-----------------------------------------------------------------------------
(* The resource router (FastMCP): a static URI, then the URI template, in   *)
(* which a {name} parameter matches one path segment, [^/]+.                *)

SandboxesUri == <<"daytona://", "sandboxes">>

TemplateMatch(uri) ==
    LET segs == IF uri = <<>> THEN <<>> ELSE Split(Tail(uri), Slash)
    IN  IF /\ uri # <<>>
           /\ uri[1] = "daytona://"
           /\ Len(segs) = 3
           /\ segs[1] # <<>>
           /\ segs[2] = <<"files">>
           /\ segs[3] # <<>>
        THEN [matched |-> TRUE, sandbox_id |-> segs[1], path |-> segs[3]]
        ELSE [matched |-> FALSE, sandbox_id |-> <<>>, path |-> <<>>]

-----------------------------------------------------------------------------
(* The state machine *)

Init ==
    /\ env \in [DAYTONA_API_KEY : ApiKeys, DAYTONA_SERVER_URL : ServerUrls]
    /\ pc = "idle"
    /\ call = NoCall
    /\ sent = <<>>
    /\ response = NoResponse
    /\ result = NoResult
    /\ sandboxes = {}
    /\ files = {}
    /\ created = {}
    /\ removed = {}
    /\ written = {}

\* A handler runs to its await: it issues `prepared`'s request, or returns `failure`
\* when resolving the configuration raised.
Start(c, prepared, failure) ==
    /\ pc = "idle"
    /\ call' = c
    /\ response' = NoResponse
    /\ IF prepared.raised
       THEN sent' = <<>> /\ result' = failure /\ pc' = "idle"
       ELSE sent' = <<prepared.value>> /\ result' = NoResult /\ pc' = "awaiting"
    /\ UNCHANGED <<env, sandboxes, files, created, removed, written>>

Tool(name) == [NoCall EXCEPT !.op = name, !.handler = name]

list_sandboxes ==
    LET r == list_sandboxes_request
    IN  Start(Tool("list_sandboxes"), r, tool_error("listing sandboxes", r.exc))

CreateWith(repository_url) ==
    LET r == create_sandbox_request(repository_url)
    IN  Start([Tool("create_sandbox") EXCEPT !.repository_url = repository_url], r,
              tool_error("creating sandbox", r.exc))

create_sandbox == \E repository_url \in SampleRepoUrls : CreateWith(repository_url)

get_sandbox_info ==
    \E sandbox_id \in Ids :
        LET r == get_sandbox_info_request(sandbox_id)
        IN  Start([Tool("get_sandbox_info") EXCEPT !.sandbox_id = sandbox_id], r,
                  tool_error("getting sandbox info", r.exc))

remove_sandbox ==
    \E sandbox_id \in Ids :
        LET r == remove_sandbox_request(sandbox_id)
        IN  Start([Tool("remove_sandbox") EXCEPT !.sandbox_id = sandbox_id], r,
                  tool_error("removing sandbox", r.exc))

execute_command ==
    \E sandbox_id \in Ids, command \in Commands :
        LET r == execute_command_request(sandbox_id, command)
        IN  Start([Tool("execute_command") EXCEPT !.sandbox_id = sandbox_id,
                                                  !.command = command], r,
                  tool_error("executing command", r.exc))

read_file ==
    \E sandbox_id \in Ids, path \in WritePaths :
        LET r == read_file_request(sandbox_id, path)
        IN  Start([Tool("read_file") EXCEPT !.sandbox_id = sandbox_id, !.path = path], r,
                  tool_error("reading file", r.exc))

write_file ==
    \E sandbox_id \in Ids, path \in WritePaths, content \in Contents :
        LET r == write_file_request(sandbox_id, path, content)
        IN  Start([Tool("write_file") EXCEPT !.sandbox_id = sandbox_id, !.path = path,
                                             !.content = content], r,
                  tool_error("writing file", r.exc))

list_files ==
    \E sandbox_id \in Ids, path \in ListPaths :
        LET r == list_files_request(sandbox_id, path)
        IN  Start([Tool("list_files") EXCEPT !.sandbox_id = sandbox_id, !.path = path], r,
                  tool_error("executing command", r.exc))

\* A resource read: the router picks the handler, or none
read_resource ==
    \E uri \in ResourceUris \cup {SandboxesUri} :
        LET m == TemplateMatch(uri)
            c == [NoCall EXCEPT !.op = "read_resource", !.uri = uri]
        IN  IF uri = SandboxesUri
            THEN LET r == list_sandboxes_resource_request
                 IN  Start([c EXCEPT !.handler = "list_sandboxes_resource"], r,
                           Returned("except Exception", <<"<json>">>,
                                    JObj({<<"error", r.exc>>})))
            ELSE IF m.matched
            THEN LET r == read_file_resource_request(m.sandbox_id, m.path)
                 IN  Start([c EXCEPT !.handler = "read_file_resource",
                                     !.sandbox_id = m.sandbox_id, !.path = m.path], r,
                           read_file_resource_error(m.sandbox_id, m.path, r.exc))
            ELSE Start(c, Raise(<<"Unknown resource: ">> \o uri),
                       Returned("unrouted", <<"Unknown resource: ">> \o uri, JNull))

\* The service answers the request in flight
ServiceResponds ==
    /\ pc = "awaiting"
    /\ \E a \in StubAnswers(sent[Len(sent)]) :
           /\ response' = a.resp
           /\ sandboxes' = a.sandboxes
           /\ files' = a.files
    /\ pc' = "responded"
    /\ UNCHANGED <<env, call, sent, result, created, removed, written>>

\* The request never gets an answer: the connection fails or the client times out
TransportFails ==
    /\ pc = "awaiting"
    /\ \E d \in TransportErrors : response' = TransportFailure(d)
    /\ pc' = "responded"
    /\ UNCHANGED <<env, call, sent, result, sandboxes, files, created, removed, written>>

\* The handler's code after its await, by handler
Outcome(c, req, resp) ==
    CASE c.handler = "list_sandboxes" -> list_sandboxes_result(resp)
      [] c.handler = "create_sandbox" -> create_sandbox_result(resp)
      [] c.handler = "get_sandbox_info" -> get_sandbox_info_result(resp)
      [] c.handler = "remove_sandbox" -> remove_sandbox_result(c.sandbox_id, resp)
      [] c.handler = "execute_command" -> execute_command_result(resp)
      [] c.handler = "read_file" -> read_file_result(resp)
      [] c.handler = "write_file" -> write_file_result(c.path, resp)
      [] c.handler = "list_files" -> list_files_result(resp)
      [] c.handler = "list_sandboxes_resource" -> list_sandboxes_resource_result(req, resp)
      [] c.handler = "read_file_resource" ->
             read_file_resource_result(c.sandbox_id, c.path, req, resp)

\* What the caller learns from a returned value
Learn(r) ==
    LET ok == r.site = "return"
        id == JGet(r.data, "id", <<>>)
    IN  /\ created' = IF ok /\ call.handler = "create_sandbox" THEN created \cup {id}
                      ELSE IF ok /\ call.handler = "remove_sandbox"
                           THEN created \ {call.sandbox_id}
                           ELSE created
        /\ removed' = IF ok /\ call.handler = "create_sandbox" THEN removed \ {id}
                      ELSE IF ok /\ call.handler = "remove_sandbox"
                           THEN removed \cup {call.sandbox_id}
                           ELSE removed
        /\ written' = IF ok /\ call.handler = "write_file"
                      THEN (written \ FileAt(written, call.sandbox_id, call.path))
                           \cup {<<call.sandbox_id, call.path, call.content>>}
                      ELSE written

\* The handler issues its request again after a failure, once
ReturnOrRetry ==
    /\ pc = "responded"
    /\ IF Failed(response) /\ Len(sent) < 2
       THEN /\ sent' = Append(sent, sent[Len(sent)])
            /\ pc' = "awaiting"
            /\ UNCHANGED <<result, created, removed, written>>
       ELSE /\ result' = Outcome(call, sent[Len(sent)], response)
            /\ Learn(result')
            /\ pc' = "idle"
            /\ UNCHANGED sent
    /\ UNCHANGED <<env, call, response, sandboxes, files>>

\* The handler resumes with the response and returns
Return ==
    /\ pc = "responded"
    /\ result' = Outcome(call, sent[Len(sent)], response)
    /\ Learn(result')
    /\ pc' = "idle"
    /\ UNCHANGED <<env, call, sent, response, sandboxes, files>>

Next ==
    \/ list_sandboxes
    \/ create_sandbox
    \/ get_sandbox_info
    \/ remove_sandbox
    \/ execute_command
    \/ read_file
    \/ write_file
    \/ list_files
    \/ read_resource
    \/ ServiceResponds
    \/ TransportFails
    \/ Return

Spec == Init /\ [][Next]_vars

\* create_sandbox alone, called again and again with one repository URL, which is any
\* string of up to MaxUrlLen characters
ValidEnv ==
    [DAYTONA_API_KEY |-> [set |-> TRUE, val |-> <<"k1">>],
     DAYTONA_SERVER_URL |-> [set |-> TRUE, val |-> ServerRoot \o <<Slash>>]]

InitCreate ==
    /\ env = ValidEnv
    /\ pc = "idle"
    /\ call \in {[NoCall EXCEPT !.repository_url = u] : u \in BoundedRepoUrls}
    /\ sent = <<>>
    /\ response = NoResponse
    /\ result = NoResult
    /\ sandboxes = {}
    /\ files = {}
    /\ created = {}
    /\ removed = {}
    /\ written = {}

create_sandbox_any == CreateWith(call.repository_url)

NextCreate ==
    \/ create_sandbox_any
    \/ ServiceResponds
    \/ TransportFails
    \/ Return

SpecCreate == InitCreate /\ [][NextCreate]_vars

-----------------------------------------------------------------------------
(* Properties *)

Finished == pc = "idle" /\ call.handler # "none"
Answered == response.kind = "http"
\* the service answered as its state dictates, not with its 500
AnsweredInOrder == Answered /\ response # ServerFault

\* s occurs in the returned string, or in a string of the JSON value it renders
Carries(r, s) == Contains(r.text, s) \/ \E p \in r.data.kv : Contains(p[2], s)

IsConfigurationError(r) ==
    /\ r.site = "except Exception"
    /\ Carries(r, KeyNotSet) \/ Carries(r, UrlNotSet)

\* C1: with the API key unset or empty, no request is ever issued, and every call
\* that reaches a handler ends at once with a configuration error, whatever the base
\* URL setting is.
C1_UnsetKeyFailsWithoutRequest ==
    ~Truthy(env.DAYTONA_API_KEY) =>
        /\ sent = <<>>
        /\ pc = "idle"
        /\ Finished => IsConfigurationError(result)

C1_Witness ==
    /\ Finished
    /\ call.handler = "write_file"
    /\ ~Truthy(env.DAYTONA_API_KEY)
    /\ Truthy(env.DAYTONA_SERVER_URL)
    /\ IsConfigurationError(result)

\* C2 (as claimed): whenever the service answers a call's request with a status >= 400,
\* the call returns an error that carries both the status code and the response body.
C2_ErrorCarriesStatusAndBody ==
    (Finished /\ Answered /\ response.status >= 400) =>
        /\ result.site # "return"
        /\ Carries(result, <<StatusStr(response.status)>>)
        /\ Carries(result, response.text)

IsNotFound(r) == r.site = "except HTTPStatusError" /\ Contains(r.text, <<"404">>)

\* C3: when the service answers in order, get_sandbox_info on an id that a create
\* returned (and no remove has taken since) returns the sandbox with that id, and on an
\* id that a remove has taken it returns the HTTP error carrying status 404, which
\* tells it from the service's other errors.
C3_CreateGetRemoveGet ==
    (Finished /\ call.handler = "get_sandbox_info" /\ AnsweredInOrder) =>
        /\ call.sandbox_id \in created =>
               /\ result.site = "return"
               /\ JGet(result.data, "id", <<>>) = call.sandbox_id
        /\ call.sandbox_id \in removed =>
               /\ IsNotFound(result)
               /\ result # get_sandbox_info_result(ServerFault)

C3_Witness ==
    /\ Finished
    /\ call.handler = "get_sandbox_info"
    /\ call.sandbox_id \in removed
    /\ created # {}
    /\ IsNotFound(result)

\* C4: a read_file that succeeds returns exactly the content of the last acknowledged
\* write_file to the same sandbox id and path, it does succeed when there was one and
\* the service answers in order, and upload and download both send the caller's path,
\* unmodified, as the `path` query parameter.
C4_WriteThenReadRoundTrips ==
    /\ (Finished /\ call.handler = "read_file" /\ result.site = "return") =>
           \E w \in FileAt(written, call.sandbox_id, call.path) : result.text = w[3]
    /\ (Finished /\ call.handler = "read_file" /\ AnsweredInOrder
            /\ FileAt(written, call.sandbox_id, call.path) # {}) =>
           result.site = "return"
    /\ call.handler \in {"read_file", "write_file"} =>
           \A i \in 1..Len(sent) : sent[i].params = {<<"path", call.path>>}

C4_Witness ==
    /\ Finished
    /\ call.handler = "read_file"
    /\ call.path = <<Slash, "tmp", Slash, "a.txt">>
    /\ result.site = "return"
    /\ result.text = <<"data">>
    /\ Cardinality(written) = 2

\* everything after the first "files/" of a resource URI
AfterFilesMarker(uri) ==
    LET at == {k \in 1..(Len(uri) - 1) : uri[k] = "files" /\ uri[k + 1] = Slash}
        k == CHOOSE m \in at : \A n \in at : m <= n
    IN  SubSeq(uri, k + 2, Len(uri))

\* C5 (as claimed): a resource URI daytona://<sandbox-id>/files/<path> whose path holds
\* further "/" separators reaches the file-read handler with the sandbox id and the
\* whole path, which it sends as the `path` query parameter.
C5_DeepPathRouted ==
    (/\ call.op = "read_resource"
     /\ call.uri # SandboxesUri
     /\ Contains(AfterFilesMarker(call.uri), <<Slash>>)) =>
        /\ call.handler = "read_file_resource"
        /\ call.sandbox_id = <<call.uri[2]>>
        /\ call.path = AfterFilesMarker(call.uri)
        /\ \A i \in 1..Len(sent) : sent[i].params = {<<"path", call.path>>}

\* the last "/"-separated segment without a trailing ".git"
NameWithoutGitSuffix(repository_url) ==
    LET seg == LastSegment(repository_url, Slash)
        n == Len(seg)
    IN  IF n >= 4 /\ SubSeq(seg, n - 3, n) = DotGit THEN SubSeq(seg, 1, n - 4) ELSE seg

\* C6 (as claimed): the create request's `name` is the last path segment of the
\* repository URL with only a trailing ".git" removed, and the URL goes unmodified
\* under source.repository.url.
C6_NameStripsGitSuffixOnly ==
    call.handler = "create_sandbox" =>
        \A i \in 1..Len(sent) :
            sent[i].json = {<< <<"source", "repository", "url">>, call.repository_url >>,
                            << <<"name">>, NameWithoutGitSuffix(call.repository_url) >>}

Reported(field, default) ==
    IF JHas(response.json, field) THEN JGet(response.json, field, <<>>) ELSE default

\* C7: for a status < 400 answer to execute_command (also when list_files made the
\* call) holding any subset of exitCode, stdout, stderr, the call succeeds and reports
\* each field that is there with the service's value, "Unknown" for a missing exit
\* code and the empty string for a missing stdout or stderr.
C7_ExecuteDefaults ==
    (Finished /\ call.handler \in {"execute_command", "list_files"}
        /\ Answered /\ response.status < 400) =>
        /\ result.site = "return"
        /\ result.text = <<"Exit Code: ">> \o Reported("exitCode", <<"Unknown">>) \o <<"\n">>
                         \o <<"Stdout: ">> \o Reported("stdout", <<>>) \o <<"\n">>
                         \o <<"Stderr: ">> \o Reported("stderr", <<>>)

C7_Witness ==
    /\ Finished
    /\ call.handler = "execute_command"
    /\ Answered
    /\ response.json = JObj({<<"stdout", <<"hi\n">>>>})
    /\ result.site = "return"
    /\ Contains(result.text, <<"Exit Code: ", "Unknown", "\n">>)

OperationName(handler) ==
    CASE handler = "get_sandbox_info" -> "getting sandbox info"
      [] handler = "remove_sandbox" -> "removing sandbox"
      [] handler = "execute_command" -> "executing command"
      [] handler = "read_file" -> "reading file"
      [] handler = "write_file" -> "writing file"
      [] handler = "list_files" -> "listing files"
      [] handler = "read_file_resource" -> "reading resource"
      [] OTHER -> "?"

\* C8 (as claimed): every failure of an operation that takes a sandbox id or a path
\* returns a message with the operation's name, the sandbox id, the path when one was
\* given, and the status with the body or the transport failure's description.
C8_ErrorNamesOperationAndTarget ==
    (Finished /\ call.sandbox_id # <<>> /\ result.site # "return") =>
        /\ Carries(result, <<OperationName(call.handler)>>)
        /\ Carries(result, call.sandbox_id)
        /\ Carries(result, call.path)
        /\ Answered => /\ Carries(result, <<StatusStr(response.status)>>)
                       /\ Carries(result, response.text)
        /\ response.kind = "transport" => Carries(result, response.error)

\* C9: an invocation issues at most one request, whatever comes back, and after a
\* failed request it has returned an error, list_files included.
C9_NoRetry ==
    /\ Len(sent) <= 1
    /\ (Finished /\ Failed(response)) => (result.site # "return" /\ Len(sent) = 1)

C9_Witness ==
    /\ Finished
    /\ call.handler = "list_files"
    /\ response.kind = "transport"
    /\ Len(sent) = 1
    /\ result.site = "except Exception"

Bearer == <<"Authorization", <<"Bearer ">> \o env.DAYTONA_API_KEY.val>>

\* C10: every request carries Authorization: Bearer <api_key>; every request but the
\* upload of write_file carries Content-Type: application/json and nothing else, and
\* the upload carries the Authorization header alone.
C10_RequestHeaders ==
    \A i \in 1..Len(sent) :
        /\ Truthy(env.DAYTONA_API_KEY)
        /\ Bearer \in sent[i].headers
        /\ IF call.handler = "write_file"
           THEN sent[i].headers = {Bearer}
           ELSE sent[i].headers = {Bearer, JsonContentType}

C10_Witness ==
    /\ pc = "awaiting"
    /\ call.handler = "write_file"
    /\ sent[1].headers = {<<"Authorization", <<"Bearer ", "k1">>>>}
    /\ sent[1].files # {}

====
